---- MODULE Spec2Model ----
\* Model of the igazolas certificate generator (src/igazolo.py) and its HTTP
\* wrapper (src/api.py).
\*
\* Strings are sequences of one-character strings, so that parsing
\* (datetime.strptime) and formatting (strftime, f-strings) are computed
\* character by character.  Python's None is the one-element tuple None, which
\* no string equals (its element is not a single character).
EXTENDS Integers, Sequences, FiniteSets, TLC

VARIABLES disk, last, fr

vars == <<disk, last, fr>>

None == <<"None">>

\* ---------------------------------------------------------------------------
\* Characters and numbers
\* ---------------------------------------------------------------------------

Digits == {"0", "1", "2", "3", "4", "5", "6", "7", "8", "9"}

DigitChars == <<"0", "1", "2", "3", "4", "5", "6", "7", "8", "9">>

\* int() of one decimal digit character
DigitVal(c) ==
    CHOOSE n \in 0..9 : DigitChars[n + 1] = c

\* the character of one decimal digit
DigitChar(n) ==
    DigitChars[n + 1]

\* the character at 1-based position i, or "" past either end
At(s, i) ==
    IF i >= 1 /\ i <= Len(s) THEN s[i] ELSE ""

\* str(n) as the f-string of line 157 formats a month or a day: no padding
PyStr(n) ==
    IF n < 10 THEN <<DigitChar(n)>>
    ELSE IF n < 100 THEN <<DigitChar(n \div 10), DigitChar(n % 10)>>
    ELSE IF n < 1000 THEN <<DigitChar(n \div 100), DigitChar((n \div 10) % 10), DigitChar(n % 10)>>
    ELSE <<DigitChar(n \div 1000), DigitChar((n \div 100) % 10), DigitChar((n \div 10) % 10), DigitChar(n % 10)>>

\* a strftime two-digit field (%y, %m, %d): zero-padded
Pad2(n) ==
    <<DigitChar((n \div 10) % 10), DigitChar(n % 10)>>

\* ---------------------------------------------------------------------------
\* datetime.strptime with the formats "%Y-%m-%d" and "%Y.%m.%d"
\* (CPython _strptime: the format becomes the regular expression
\*  (\d\d\d\d) SEP (1[0-2]|0[1-9]|[1-9]) SEP (3[0-1]|[1-2]\d|0[1-9]|[1-9]| [1-9]),
\*  matched at the start of the string; text left after the match is an error)
\* ---------------------------------------------------------------------------

ValueError == <<"ValueError">>

\* %Y: the lengths with which \d\d\d\d matches at i, in alternation order
MatchY(s, i) ==
    IF \A k \in 0..3 : At(s, i + k) \in Digits THEN <<4>> ELSE <<>>

\* %m: the lengths with which 1[0-2]|0[1-9]|[1-9] matches at i, in alternation order
MatchM(s, i) ==
    (IF At(s, i) = "1" /\ At(s, i + 1) \in {"0", "1", "2"} THEN <<2>> ELSE <<>>)
    \o (IF At(s, i) = "0" /\ At(s, i + 1) \in Digits \ {"0"} THEN <<2>> ELSE <<>>)
    \o (IF At(s, i) \in Digits \ {"0"} THEN <<1>> ELSE <<>>)

\* %d: the lengths with which 3[0-1]|[1-2]\d|0[1-9]|[1-9]| [1-9] matches at i
MatchD(s, i) ==
    (IF At(s, i) = "3" /\ At(s, i + 1) \in {"0", "1"} THEN <<2>> ELSE <<>>)
    \o (IF At(s, i) \in {"1", "2"} /\ At(s, i + 1) \in Digits THEN <<2>> ELSE <<>>)
    \o (IF At(s, i) = "0" /\ At(s, i + 1) \in Digits \ {"0"} THEN <<2>> ELSE <<>>)
    \o (IF At(s, i) \in Digits \ {"0"} THEN <<1>> ELSE <<>>)
    \o (IF At(s, i) = " " /\ At(s, i + 1) \in Digits \ {"0"} THEN <<2>> ELSE <<>>)

\* int() of the characters i..i+n-1 of s, a leading blank skipped
IntOf(s, i, n) ==
    IF n = 1 THEN DigitVal(s[i])
    ELSE IF n = 2 THEN (IF s[i] = " " THEN 0 ELSE 10 * DigitVal(s[i])) + DigitVal(s[i + 1])
    ELSE 1000 * DigitVal(s[i]) + 100 * DigitVal(s[i + 1])
         + 10 * DigitVal(s[i + 2]) + DigitVal(s[i + 3])

IsLeap(y) ==
    y % 4 = 0 /\ (y % 100 # 0 \/ y % 400 = 0)

DaysInMonth(y, m) ==
    IF m = 2 THEN (IF IsLeap(y) THEN 29 ELSE 28)
    ELSE IF m \in {4, 6, 9, 11} THEN 30 ELSE 31

\* the datetime constructor's range check (MINYEAR is 1)
ValidDate(y, m, d) ==
    /\ y >= 1 /\ y <= 9999
    /\ m >= 1 /\ m <= 12
    /\ d >= 1 /\ d <= DaysInMonth(y, m)

\* datetime.strptime(s, "%Y" sep "%m" sep "%d"): the date <<y, m, d>>, or ValueError
Strptime(s, sep) ==
    LET ys == SelectSeq(MatchY(s, 1), LAMBDA yl : At(s, 1 + yl) = sep)
    IN  IF ys = <<>> THEN ValueError
        ELSE
        LET mstart == 1 + Head(ys) + 1
            ms == SelectSeq(MatchM(s, mstart),
                            LAMBDA ml : /\ At(s, mstart + ml) = sep
                                        /\ MatchD(s, mstart + ml + 1) # <<>>)
        IN  IF ms = <<>> THEN ValueError
            ELSE
            LET dstart == mstart + Head(ms) + 1
                dl == Head(MatchD(s, dstart))
                end == dstart + dl - 1
                y == IntOf(s, 1, 4)
                m == IntOf(s, mstart, Head(ms))
                d == IntOf(s, dstart, dl)
            IN  IF end # Len(s) THEN ValueError
                ELSE IF ~ValidDate(y, m, d) THEN ValueError
                ELSE <<y, m, d>>

\* a faulty variant: the format chosen without looking for '.', always "%Y-%m-%d"
ParseDateDashOnly(s) ==
    Strptime(s, "-")

\* lines 117-120 (and 126-129): the format is chosen by whether s contains '.'
ParseDate(s) ==
    IF \E i \in 1..Len(s) : s[i] = "." THEN Strptime(s, ".") ELSE Strptime(s, "-")

\* date.strftime("%y.%m.%d")
StrftimeShort(date) ==
    Pad2(date[1] % 100) \o <<".">> \o Pad2(date[2]) \o <<".">> \o Pad2(date[3])

\* ---------------------------------------------------------------------------
\* The file system and the template
\* ---------------------------------------------------------------------------

\* "igazolas.jpg", the default input_file of generate_igazolas_image (line 89)
TemplatePath ==
    <<"i", "g", "a", "z", "o", "l", "a", "s", ".", "j", "p", "g">>

\* the content of a template file PIL can decode, and of one it cannot
\* (a file's content is <<format, payload>>)
TemplateJpeg == <<"JPEG", <<"template scan">>>>

Garbage == <<"unknown", <<"not an image">>>>

\* os.path.exists(path)
PathExists(fs, path) ==
    path \in DOMAIN fs

\* Image.open(path) succeeds
CanOpen(fs, path) ==
    fs[path][1] = "JPEG"

\* a faulty variant: the image saved over the template instead of under the derived name
SaveJpegOverInput(fs, filename, image) ==
    [n \in DOMAIN fs \cup {TemplatePath} |->
        IF n = TemplatePath THEN <<"JPEG", image>> ELSE fs[n]]

\* image.save(filename, "JPEG", quality=95): the file system afterwards
SaveJpeg(fs, filename, image) ==
    [n \in DOMAIN fs \cup {filename} |->
        IF n = filename THEN <<"JPEG", image>> ELSE fs[n]]

\* ---------------------------------------------------------------------------
\* generate_handwritten_text and generate_igazolas_image
\* ---------------------------------------------------------------------------

\* the positions dictionary of lines 140-144, (x1, y1, x2, y2)
Position(region) ==
    CASE region = "from_date" -> <<1347, 750, 1966, 864>>
      [] region = "to_date" -> <<2386, 759, 2934, 862>>
      [] region = "current_date" -> <<921, 1385, 1685, 1505>>

\* the ink colour of line 86
InkColor == <<0, 0, 139>>

\* generate_handwritten_text: one draw.text call on the in-memory image, left
\* aligned 15 pixels inside the box.  The glyph metrics (and with them y) come
\* from the font _find_font returns and are not part of the drawn record.
DrawText(image, text, region, font_size) ==
    <<image[1], Append(image[2],
                       <<region, text, Position(region)[1] + 15, InkColor, font_size>>)>>

\* Image.open(input_file) followed by ImageDraw.Draw: a copy in memory of the
\* file's pixels with nothing drawn on it yet
OpenImage(fs, path) ==
    <<fs[path][2], <<>>>>

\* the text drawn into a region of an image, None when nothing was drawn there
TextIn(image, region) ==
    LET hits == SelectSeq(image[2], LAMBDA op : op[1] = region)
    IN  IF hits = <<>> THEN None ELSE hits[Len(hits)][2]

NotFoundMsg(input_file) ==
    <<"Error: ", input_file, " not found in current directory">>

LoadErrorMsg(cause) ==
    <<"Error loading image: ", cause>>

InvalidFromMsg(from_date_str) ==
    <<"Error: Invalid from date format '", from_date_str, "'. Use YYYY-MM-DD or YYYY.MM.DD">>

InvalidToMsg(to_date_str) ==
    <<"Error: Invalid to date format '", to_date_str, "'. Use YYYY-MM-DD or YYYY.MM.DD">>

\* a faulty variant: the filename built from the from date
OutputFilenameFromFrom(from_date, to_date) ==
    <<"i", "g", "a", "z", "o", "l", "a", "s", "_">> \o PyStr(from_date[2])
    \o <<"_">> \o PyStr(from_date[3]) \o <<".", "j", "p", "g">>

\* line 157: f"igazolas_{to_date.month}_{to_date.day}.jpg"
OutputFilename(from_date, to_date) ==
    <<"i", "g", "a", "z", "o", "l", "a", "s", "_">> \o PyStr(to_date[2])
    \o <<"_">> \o PyStr(to_date[3]) \o <<".", "j", "p", "g">>

\* a faulty variant: an absent to date left as it is
DefaultToDateKeepNone(from_date_str, to_date_str) ==
    to_date_str

\* lines 103-104: an absent to date is replaced by the from date string
DefaultToDate(from_date_str, to_date_str) ==
    IF to_date_str = None THEN from_date_str ELSE to_date_str

\* lines 133-159, once both dates parsed: the three texts drawn, the filename
Compose(fs, input_file, from_date, to_date, now) ==
    LET image0 == OpenImage(fs, input_file)
        image1 == DrawText(image0, StrftimeShort(from_date), "from_date", 100)
        image2 == DrawText(image1, StrftimeShort(to_date), "to_date", 100)
        image3 == DrawText(image2, StrftimeShort(now), "current_date", 100)
    IN  <<image3, OutputFilename(from_date, to_date), from_date, to_date, None>>

\* a faulty variant: the dates parsed before the template is looked for
GenerateDatesFirst(from_date_str, to_date_arg, input_file, fs, now) ==
    LET to_date_str == DefaultToDate(from_date_str, to_date_arg)
        from_date == ParseDate(from_date_str)
        to_date == ParseDate(to_date_str)
    IN  IF from_date = ValueError
        THEN <<None, None, None, None, InvalidFromMsg(from_date_str)>>
        ELSE IF to_date = ValueError
        THEN <<None, None, None, None, InvalidToMsg(to_date_str)>>
        ELSE IF ~PathExists(fs, input_file)
        THEN <<None, None, None, None, NotFoundMsg(input_file)>>
        ELSE IF ~CanOpen(fs, input_file)
        THEN <<None, None, None, None, LoadErrorMsg(fs[input_file][2])>>
        ELSE Compose(fs, input_file, from_date, to_date, now)

\* a faulty variant: the to date parsed (and reported) before the from date
GenerateToFirst(from_date_str, to_date_arg, input_file, fs, now) ==
    LET to_date_str == DefaultToDate(from_date_str, to_date_arg)
        from_date == ParseDate(from_date_str)
        to_date == ParseDate(to_date_str)
    IN  IF ~PathExists(fs, input_file)
        THEN <<None, None, None, None, NotFoundMsg(input_file)>>
        ELSE IF ~CanOpen(fs, input_file)
        THEN <<None, None, None, None, LoadErrorMsg(fs[input_file][2])>>
        ELSE IF to_date = ValueError
        THEN <<None, None, None, None, InvalidToMsg(to_date_str)>>
        ELSE IF from_date = ValueError
        THEN <<None, None, None, None, InvalidFromMsg(from_date_str)>>
        ELSE Compose(fs, input_file, from_date, to_date, now)

\* generate_igazolas_image (lines 89-159): the returned tuple
\* (image, output_filename, from_date, to_date, error_message).
\* fs is the file system it reads, now the value of datetime.now().
generate_igazolas_image(from_date_str, to_date_arg, input_file, fs, now) ==
    LET to_date_str == DefaultToDate(from_date_str, to_date_arg)
        from_date == ParseDate(from_date_str)
        to_date == ParseDate(to_date_str)
    IN  IF ~PathExists(fs, input_file)
        THEN <<None, None, None, None, NotFoundMsg(input_file)>>
        ELSE IF ~CanOpen(fs, input_file)
        THEN <<None, None, None, None, LoadErrorMsg(fs[input_file][2])>>
        ELSE IF from_date = ValueError
        THEN <<None, None, None, None, InvalidFromMsg(from_date_str)>>
        ELSE IF to_date = ValueError
        THEN <<None, None, None, None, InvalidToMsg(to_date_str)>>
        ELSE Compose(fs, input_file, from_date, to_date, now)

\* ---------------------------------------------------------------------------
\* process_igazolas and main (the command line), src/igazolo.py lines 162-201
\* ---------------------------------------------------------------------------

UsageLines ==
    << <<"Usage: python igazolo.py <from_date> [to_date]">>,
       <<"Date format: YYYY-MM-DD or YYYY.MM.DD">>,
       <<"Examples:">>,
       <<"  python igazolo.py 2025-12-01              # Uses same date for both">>,
       <<"  python igazolo.py 2025-12-01 2025-12-05  # Different from/to dates">> >>

\* what a run of the program leaves behind: the lines printed to standard
\* output and to standard error, the exit status, the file system, the names of
\* the files it wrote and what the core returned to it (None: never called)
Run(stdout, stderr, exit, fs, wrote, ret) ==
    [stdout |-> stdout, stderr |-> stderr, exit |-> exit, fs |-> fs,
     wrote |-> wrote, ret |-> ret]

\* process_igazolas (lines 162-186); now2 is the second datetime.now() of line 179
process_igazolas(from_date_str, to_date_str, fs, now, now2) ==
    LET ret == generate_igazolas_image(from_date_str, to_date_str, TemplatePath, fs, now)
    IN  IF ret[5] # None
        THEN Run(<<ret[5]>>, <<>>, 1, fs, {}, ret)
        ELSE Run(<< <<"Successfully created: ", ret[2]>>,
                    <<"From date: ", StrftimeShort(ret[3])>>,
                    <<"To date: ", StrftimeShort(ret[4])>>,
                    <<"Current date: ", StrftimeShort(now2)>> >>,
                 <<>>, 0, SaveJpeg(fs, ret[2], ret[1]), {ret[2]}, ret)

\* main (lines 189-201); argv[1] is the program name
main(argv, fs, now, now2) ==
    IF Len(argv) < 2 \/ Len(argv) > 3
    THEN Run(UsageLines, <<>>, 1, fs, {}, None)
    ELSE process_igazolas(argv[2], IF Len(argv) = 3 THEN argv[3] ELSE None,
                          fs, now, now2)

\* ---------------------------------------------------------------------------
\* generate_igazolas_endpoint (GET /generate), src/api.py lines 17-59
\* ---------------------------------------------------------------------------

UsageJson ==
    << <<"error", <<"Missing required parameter: from_date">>>>,
       <<"usage", <<"GET /generate?from_date=YYYY-MM-DD&to_date=YYYY-MM-DD">>>>,
       <<"example", <<"GET /generate?from_date=2025-12-01&to_date=2025-12-05">>>> >>

\* an HTTP response: a JSON body (json) or a streamed file (data), and what the
\* core returned to the handler (None: never called)
Response(status, json, mimetype, download_name, data, ret) ==
    [status |-> status, json |-> json, mimetype |-> mimetype,
     download_name |-> download_name, data |-> data, ret |-> ret]

\* a faulty variant: a core error answered without the core's message
ErrorResponseGeneric(ret) ==
    Response(400, << <<"error", <<"Invalid request">>>> >>, "application/json", None, None, ret)

\* lines 46-47: jsonify({'error': error}), 400
ErrorResponse(ret) ==
    Response(400, << <<"error", ret[5]>> >>, "application/json", None, None, ret)

\* generate_igazolas_endpoint; from_date and to_date are request.args.get(...),
\* None when the query parameter is absent
generate_igazolas_endpoint(from_date, to_date, fs, now) ==
    IF from_date = None \/ from_date = <<>>
    THEN Response(400, UsageJson, "application/json", None, None, None)
    ELSE LET ret == generate_igazolas_image(from_date, to_date, TemplatePath, fs, now)
         IN  IF ret[5] # None
             THEN ErrorResponse(ret)
             ELSE Response(200, None, "image/jpeg", ret[2], <<"JPEG", ret[1]>>, ret)

\* ---------------------------------------------------------------------------
\* _find_font (src/igazolo.py lines 27-71), one step per loop iteration
\* ---------------------------------------------------------------------------

Systems == {"Windows", "Darwin", "Linux"}

\* lines 32-50: search_dirs for platform.system()
SearchDirs(system) ==
    CASE system = "Windows" -> <<"C:\\Windows\\Fonts">>
      [] system = "Darwin" -> <<"/System/Library/Fonts", "/Library/Fonts", "~/Library/Fonts">>
      [] OTHER -> <<"/usr/share/fonts", "/usr/local/share/fonts",
                    "~/.local/share/fonts", "~/.fonts">>

\* lines 32-50: candidates for platform.system()
Candidates(system) ==
    CASE system = "Windows" -> <<"segoepr.ttf", "Inkfree.ttf", "BRUSHSCI.TTF", "arial.ttf">>
      [] system = "Darwin" -> <<"Bradley Hand.ttf", "BradleyHandITCTT-Bold.ttf",
                                "Brush Script.ttf", "Apple Chancery.ttf", "Noteworthy.ttc",
                                "Marker Felt.ttc", "SnellRoundhand.ttf", "Arial.ttf">>
      [] OTHER -> <<"DejaVuSans.ttf", "FreeSans.ttf", "Arial.ttf">>

\* ImageFont.load_default()
DefaultFont == <<"default">>

\* ImageFont.truetype(path, size) when it succeeds
TrueType(path, size) == <<"truetype", path, size>>

\* the resolver before it is called
FrIdle ==
    [phase |-> "idle", system |-> "Linux", size |-> 0, d |-> 0, c |-> 0,
     checked |-> 0, loads |-> 0, fails |-> 0, nloads |-> 0, nfails |-> 0,
     font |-> None]

\* _find_font(size) entered: the outer loop at its first directory and candidate.
\* checked counts the os.path.exists calls, loads and fails the truetype calls on
\* paths and those that raised, nloads and nfails the same for the by-name calls.
FrStart(system, size) ==
    [phase |-> "dirs", system |-> system, size |-> size, d |-> 1, c |-> 1,
     checked |-> 0, loads |-> 0, fails |-> 0, nloads |-> 0, nfails |-> 0,
     font |-> None]

\* lines 52-53: the next iteration of the nested loops, or the by-name loop
\* once the last directory's last candidate is done
NextDirCandidate(f) ==
    IF f.c < Len(Candidates(f.system)) THEN [f EXCEPT !.c = f.c + 1]
    ELSE IF f.d < Len(SearchDirs(f.system)) THEN [f EXCEPT !.d = f.d + 1, !.c = 1]
    ELSE [f EXCEPT !.phase = "names", !.c = 1]

\* a faulty variant: a failed load leaves the directory loops (break, not continue)
DirLoadFailedBreaks(f) ==
    [f EXCEPT !.phase = "names", !.c = 1]

\* lines 61-62: except Exception: continue
DirLoadFailed(f) ==
    NextDirCandidate(f)

\* lines 65-69: the next by-name candidate, or line 71 once all were tried
NextNameCandidate(f) ==
    IF f.c < Len(Candidates(f.system)) THEN [f EXCEPT !.c = f.c + 1]
    ELSE [f EXCEPT !.phase = "default"]

\* line 58: os.path.exists(path) is false (os.path.join of two strings, lines
\* 54-57, does not raise)
DirCandidateMissing ==
    /\ fr.phase = "dirs"
    /\ fr' = NextDirCandidate([fr EXCEPT !.checked = fr.checked + 1])
    /\ UNCHANGED <<disk, last>>

\* lines 58-62: the file exists and ImageFont.truetype raises: continue
DirCandidateLoadFails ==
    /\ fr.phase = "dirs"
    /\ fr' = DirLoadFailed([fr EXCEPT !.checked = fr.checked + 1,
                                      !.loads = fr.loads + 1,
                                      !.fails = fr.fails + 1])
    /\ UNCHANGED <<disk, last>>

\* lines 58-60: the file exists and loads: the font is returned
DirCandidateLoads ==
    /\ fr.phase = "dirs"
    /\ fr' = [fr EXCEPT !.checked = fr.checked + 1,
                        !.loads = fr.loads + 1,
                        !.phase = "done",
                        !.font = TrueType(<<SearchDirs(fr.system)[fr.d],
                                            Candidates(fr.system)[fr.c]>>, fr.size)]
    /\ UNCHANGED <<disk, last>>

\* lines 65-69: ImageFont.truetype(name, size) raises: continue
NameCandidateLoadFails ==
    /\ fr.phase = "names"
    /\ fr' = NextNameCandidate([fr EXCEPT !.nloads = fr.nloads + 1,
                                          !.nfails = fr.nfails + 1])
    /\ UNCHANGED <<disk, last>>

\* lines 65-67: ImageFont.truetype(name, size) returns the font
NameCandidateLoads ==
    /\ fr.phase = "names"
    /\ fr' = [fr EXCEPT !.nloads = fr.nloads + 1,
                        !.phase = "done",
                        !.font = TrueType(<<Candidates(fr.system)[fr.c]>>, fr.size)]
    /\ UNCHANGED <<disk, last>>

\* line 71: return ImageFont.load_default()
ReturnDefaultFont ==
    /\ fr.phase = "default"
    /\ fr' = [fr EXCEPT !.phase = "done", !.font = DefaultFont]
    /\ UNCHANGED <<disk, last>>

\* ---------------------------------------------------------------------------
\* Inputs
\* ---------------------------------------------------------------------------

\* months 0..MonthBound and days 0..DayBound are written into the date strings
\* the normalizer is tried on: one past either end of the calendar's ranges
MonthBound == 13

DayBound == 32

\* years written into those strings: 0 and 1 (around MINYEAR), a century that
\* is no leap year, a leap year and an ordinary year
TestYears == {0, 1, 1900, 2024, 2025}

Pad4(n) ==
    <<DigitChar(n \div 1000), DigitChar((n \div 100) % 10),
      DigitChar((n \div 10) % 10), DigitChar(n % 10)>>

\* the ways a year, a month and a day are written
YearForms(y) ==
    {Pad4(y)} \cup (IF y = 2025 THEN {Pad2(y % 100), Pad4(y) \o <<"0">>} ELSE {})

MonthForms(m) ==
    {Pad2(m), PyStr(m)}

DayForms(d) ==
    {Pad2(d), PyStr(d)} \cup (IF d < 10 THEN {<<" ">> \o PyStr(d)} ELSE {})

SepPairs == {<<"-", "-">>, <<".", ".">>, <<"-", ".">>, <<"/", "/">>}

\* every year/month/day writing joined by every separator pair
ComposedInputs ==
    { yf \o <<sp[1]>> \o mf \o <<sp[2]>> \o df :
        sp \in SepPairs,
        yf \in UNION {YearForms(y) : y \in TestYears},
        mf \in UNION {MonthForms(m) : m \in 0..MonthBound},
        df \in UNION {DayForms(d) : d \in 0..DayBound} }

S20251201 == <<"2", "0", "2", "5", "-", "1", "2", "-", "0", "1">>

\* strings of the wrong shape: empty, two and four components, text around or
\* inside a date
ExtraInputs ==
    { <<>>,
      <<"2", "0", "2", "5", "-", "1", "2">>,
      S20251201 \o <<"-", "0", "1">>,
      S20251201 \o <<" ">>,
      <<" ">> \o S20251201,
      S20251201 \o <<"1">>,
      <<"2", "0", "a", "5", "-", "1", "2", "-", "0", "1">>,
      <<"2", "0", "2", "5", "-", "0", "1", "2", "-", "0", "1">>,
      <<"2", "0", "2", "5", "1", "2", "0", "1">>,
      <<"a">> }

DateInputs == ComposedInputs \cup ExtraInputs

\* s with '-' and '.' exchanged
SwapSeps(s) ==
    [i \in 1..Len(s) |-> IF s[i] = "-" THEN "." ELSE IF s[i] = "." THEN "-" ELSE s[i]]

\* the date inputs of the calls the callers make: a date, a date written with
\* dots and one-digit fields, a date with the wrong separator, the empty string
FromInputs ==
    { S20251201,
      <<"2", "0", "2", "5", ".", "1", ".", "5">>,
      <<"2", "0", "2", "5", "/", "1", "2", "/", "0", "1">>,
      <<>> }

ToInputs ==
    { <<"2", "0", "2", "5", "-", "1", "2", "-", "0", "5">>,
      <<"2", "0", "2", "5", "-", "1", "3", "-", "0", "1">> }

\* the values datetime.now() takes
Clock == {<<2025, 12, 1>>, <<2026, 1, 15>>}

ProgName == <<"igazolo.py">>

\* sys.argv of a run: no argument, one, two, and one too many
Argvs ==
    {<<ProgName>>}
    \cup {<<ProgName, f>> : f \in FromInputs}
    \cup {<<ProgName, f, t>> : f \in FromInputs, t \in ToInputs}
    \cup {<<ProgName, S20251201, S20251201, S20251201>>}

\* ---------------------------------------------------------------------------
\* The state machine
\* ---------------------------------------------------------------------------

\* the last operation: its kind, its inputs, and what it gave back
\* (for a run of the program, the dates are the arguments main hands on)
Op(op, from_date_str, to_date_str, input_file, now, ret, run, response) ==
    [op |-> op, from_date_str |-> from_date_str, to_date_str |-> to_date_str,
     input_file |-> input_file, now |-> now, ret |-> ret, run |-> run,
     response |-> response]

NoFiles == [n \in {} |-> Garbage]

Disks ==
    {NoFiles, [n \in {TemplatePath} |-> TemplateJpeg], [n \in {TemplatePath} |-> Garbage]}

Init ==
    /\ disk \in Disks
    /\ last = Op("none", None, None, None, None, None, None, None)
    /\ fr = FrIdle

\* a direct call of the core: generate_igazolas_image(from, to)
GenerateCall ==
    \E f \in FromInputs, t \in ToInputs \cup {None}, now \in Clock :
        /\ last' = Op("generate", f, t, TemplatePath, now,
                      generate_igazolas_image(f, t, TemplatePath, disk, now), None, None)
        /\ UNCHANGED <<disk, fr>>

\* a run of the command line program: main()
CliRun ==
    \E argv \in Argvs, now \in Clock, now2 \in Clock :
        /\ now2[1] >= now[1]
        /\ \E run \in {main(argv, disk, now, now2)} :
              /\ last' = Op("cli", IF Len(argv) >= 2 THEN argv[2] ELSE None,
                            IF Len(argv) = 3 THEN argv[3] ELSE None,
                            TemplatePath, now, run.ret, run, None)
              /\ disk' = run.fs
        /\ UNCHANGED fr

\* a GET /generate request
HttpGenerate ==
    \E f \in FromInputs \cup {None}, t \in ToInputs \cup {None}, now \in Clock :
        /\ LET response == generate_igazolas_endpoint(f, t, disk, now)
           IN  last' = Op("http", f, t, TemplatePath, now, response.ret, None, response)
        /\ UNCHANGED <<disk, fr>>

Next ==
    \/ GenerateCall
    \/ CliRun
    \/ HttpGenerate

Spec == Init /\ [][Next]_vars

\* --- the date normalizer on its own: the core called once on each date string,
\* --- with a loadable template, the to date absent or the from date with its
\* --- separators exchanged

InitDate ==
    /\ disk = [n \in {TemplatePath} |-> TemplateJpeg]
    /\ \E f \in DateInputs, t \in {"absent", "swapped"} :
          last = Op("pending", f, IF t = "absent" THEN None ELSE SwapSeps(f),
                    TemplatePath, <<2025, 12, 1>>, None, None, None)
    /\ fr = FrIdle

NormalizeDates ==
    /\ last.op = "pending"
    /\ last' = [last EXCEPT !.op = "generate",
                            !.ret = generate_igazolas_image(last.from_date_str,
                                        last.to_date_str, last.input_file, disk, last.now)]
    /\ UNCHANGED <<disk, fr>>

NextDate == NormalizeDates

SpecDate == InitDate /\ [][NextDate]_vars

\* --- the font resolver on its own: _find_font called once, on each platform,
\* --- every candidate missing, failing or loading

FontSizes == {80, 100}

InitFont ==
    /\ disk = [n \in {TemplatePath} |-> TemplateJpeg]
    /\ last = Op("none", None, None, None, None, None, None, None)
    /\ \E system \in Systems, size \in FontSizes : fr = FrStart(system, size)

NextFont ==
    \/ DirCandidateMissing
    \/ DirCandidateLoadFails
    \/ DirCandidateLoads
    \/ NameCandidateLoadFails
    \/ NameCandidateLoads
    \/ ReturnDefaultFont

SpecFont == InitFont /\ [][NextFont]_vars

\* ---------------------------------------------------------------------------
\* Properties
\* ---------------------------------------------------------------------------

\* the core was called by the last operation and has returned
CoreReturned ==
    last.op \in {"generate", "cli", "http"} /\ last.ret # None

\* the template file is there and decodes
TemplateLoads ==
    PathExists(disk, TemplatePath) /\ CanOpen(disk, TemplatePath)

\* the to date string the core works on
EffectiveTo ==
    IF last.to_date_str = None THEN last.from_date_str ELSE last.to_date_str

FromErrorText(s) ==
    <<"Error: Invalid from date format '", s, "'. Use YYYY-MM-DD or YYYY.MM.DD">>

ToErrorText(s) ==
    <<"Error: Invalid to date format '", s, "'. Use YYYY-MM-DD or YYYY.MM.DD">>

\* a number written without padding, as a filename carries it
Unpadded(n) ==
    IF n < 10 THEN <<DigitChars[n + 1]>>
    ELSE <<DigitChars[(n \div 10) + 1], DigitChars[(n % 10) + 1]>>

FilenameFor(month, day) ==
    <<"i", "g", "a", "z", "o", "l", "a", "s", "_">> \o Unpadded(month) \o <<"_">>
    \o Unpadded(day) \o <<".", "j", "p", "g">>

\* the calendar, stated apart from the parser
CalendarDays(y, m) ==
    IF m = 2 THEN (IF (y % 4 = 0 /\ y % 100 # 0) \/ y % 400 = 0 THEN 29 ELSE 28)
    ELSE <<31, 28, 31, 30, 31, 30, 31, 31, 30, 31, 30, 31>>[m]

\* s is YYYY-MM-DD or YYYY.MM.DD, digit for digit, and names a real date
IsStrictDate(s) ==
    /\ Len(s) = 10
    /\ s[5] \in {"-", "."} /\ s[8] = s[5]
    /\ \A i \in {1, 2, 3, 4, 6, 7, 9, 10} : s[i] \in Digits
    /\ LET y == 1000 * DigitVal(s[1]) + 100 * DigitVal(s[2]) + 10 * DigitVal(s[3]) + DigitVal(s[4])
           m == 10 * DigitVal(s[6]) + DigitVal(s[7])
           d == 10 * DigitVal(s[9]) + DigitVal(s[10])
       IN  /\ y >= 1
           /\ m \in 1..12
           /\ d >= 1 /\ d <= CalendarDays(y, m)

\* the canonical YY.MM.DD of a strict date string: its own digits
CanonicalText(s) ==
    <<s[3], s[4], ".", s[6], s[7], ".", s[9], s[10]>>

\* C1: when the template file does not exist, every call of the core returns
\* the template-not-found error with no image, no filename and no dates,
\* whatever the date inputs are (well-formed, malformed, to date absent).
C1_TemplateNotFoundFirst ==
    (CoreReturned /\ ~PathExists(disk, TemplatePath))
        => last.ret = <<None, None, None, None,
                        <<"Error: ", TemplatePath, " not found in current directory">>>>

\* C1 witness: a call with a malformed from date and no to date, the template
\* missing, answered with the not-found error
C1_Witness ==
    /\ CoreReturned
    /\ ~PathExists(disk, TemplatePath)
    /\ last.to_date_str = None
    /\ ParseDate(last.from_date_str) = ValueError
    /\ last.ret[5][3] = " not found in current directory"

\* C2: when the template loads, a from date that does not parse gives the
\* 'from' error carrying the from string, whatever the to date is; the 'to'
\* error carrying the to string is given exactly when the from date parses and
\* a to date is given and does not parse; both come with no image and no filename.
C2_DateErrorNamesField ==
    (CoreReturned /\ TemplateLoads) =>
        /\ ParseDate(last.from_date_str) = ValueError
              => last.ret = <<None, None, None, None, FromErrorText(last.from_date_str)>>
        /\ (last.ret[5][1] = "Error: Invalid to date format '")
              <=> (/\ ParseDate(last.from_date_str) # ValueError
                   /\ last.to_date_str # None
                   /\ ParseDate(last.to_date_str) = ValueError)
        /\ (last.ret[5][1] = "Error: Invalid to date format '")
              => last.ret = <<None, None, None, None, ToErrorText(last.to_date_str)>>

\* C2 witness: both dates malformed, the template loaded, the 'from' error returned
C2_Witness ==
    /\ CoreReturned /\ TemplateLoads
    /\ ParseDate(last.from_date_str) = ValueError
    /\ last.to_date_str # None
    /\ ParseDate(last.to_date_str) = ValueError
    /\ last.ret[5] = FromErrorText(last.from_date_str)

\* C3: the normalizer accepts exactly the strings YYYY-MM-DD and YYYY.MM.DD
\* (four-digit year, two-digit month, two-digit day, a real calendar date):
\* the from date is accepted if and only if it is such a string.
C3_AcceptsExactlyTwoPatterns ==
    (last.op = "generate" /\ TemplateLoads) =>
        ((last.ret[5] # FromErrorText(last.from_date_str)) <=> IsStrictDate(last.from_date_str))

\* C4: with the to date absent and a from date that parses, the core returns
\* what generate(from, from) returns: the same text in the to_date region as in
\* the from_date region, the to date equal to the from date, the filename
\* built from the from date's month and day.
C4_AbsentToIsFrom ==
    (/\ last.op = "generate" /\ TemplateLoads
     /\ last.to_date_str = None
     /\ ParseDate(last.from_date_str) # ValueError) =>
        /\ last.ret[5] = None
        /\ last.ret = generate_igazolas_image(last.from_date_str, last.from_date_str,
                                              last.input_file, disk, last.now)
        /\ TextIn(last.ret[1], "to_date") = TextIn(last.ret[1], "from_date")
        /\ TextIn(last.ret[1], "from_date") # None
        /\ last.ret[4] = last.ret[3]
        /\ last.ret[3] = ParseDate(last.from_date_str)
        /\ last.ret[2] = FilenameFor(last.ret[3][2], last.ret[3][3])

\* C4 witness: a successful call without a to date
C4_Witness ==
    /\ last.op = "generate" /\ TemplateLoads
    /\ last.to_date_str = None
    /\ last.ret[5] = None
    /\ last.ret[2] = FilenameFor(12, 1)
    /\ TextIn(last.ret[1], "to_date") = <<"2", "5", ".", "1", "2", ".", "0", "1">>

\* C5: on every successful call the filename is igazolas_{M}_{D}.jpg with M and
\* D the month and the day of the to date, unpadded: a function of the to date
\* alone, not of the year, the from date or the clock.
C5_FilenameFromToDate ==
    (CoreReturned /\ last.ret[5] = None) =>
        /\ last.ret[4] = ParseDate(EffectiveTo)
        /\ last.ret[2] = FilenameFor(last.ret[4][2], last.ret[4][3])

\* C5 witness: a successful call whose to date differs in its day from the
\* from date and from the clock
C5_Witness ==
    /\ CoreReturned /\ last.ret[5] = None
    /\ last.to_date_str # None
    /\ last.ret[3][3] # last.ret[4][3]
    /\ last.now[3] # last.ret[4][3]
    /\ last.ret[2] = FilenameFor(12, 5)

\* C6: for every valid calendar date, its YYYY-MM-DD and its YYYY.MM.DD form
\* are rendered as the same text, the canonical YY.MM.DD: the year's last two
\* digits, the two-digit month and the two-digit day, separated by '.'.
C6_BothFormsRenderCanonical ==
    (last.op = "generate" /\ TemplateLoads /\ IsStrictDate(last.from_date_str)) =>
        /\ last.ret[5] = None
        /\ TextIn(last.ret[1], "from_date") = CanonicalText(last.from_date_str)
        /\ last.to_date_str = SwapSeps(last.from_date_str)
              => TextIn(last.ret[1], "to_date") = TextIn(last.ret[1], "from_date")

\* C6 witness: a date given with '-' as the from date and with '.' as the to
\* date, both rendered
C6_Witness ==
    /\ last.op = "generate"
    /\ IsStrictDate(last.from_date_str)
    /\ last.from_date_str[5] = "-"
    /\ last.to_date_str = SwapSeps(last.from_date_str)
    /\ last.ret[5] = None
    /\ TextIn(last.ret[1], "to_date") = <<"2", "4", ".", "0", "2", ".", "2", "9">>

\* the number of (directory, candidate) pairs of the resolver's platform
DirPairs ==
    Len(SearchDirs(fr.system)) * Len(Candidates(fr.system))

\* C7: the font resolver never fails: on every platform, whatever exists and
\* whatever fails to load, it has a next step until it returns, and it returns
\* a font; a failed load does not stop the chain (a font found at a position
\* was reached through every position before it, the by-name candidates only
\* after every directory candidate); the default font is returned exactly
\* when every directory-based and every by-name attempt has failed.
C7_FontResolverNeverFails ==
    /\ fr.phase \in {"dirs", "names", "default", "done"}
    /\ fr.phase # "done" => ENABLED NextFont
    /\ fr.phase = "done" =>
        /\ fr.font # None
        /\ (fr.font = DefaultFont) <=>
              (/\ fr.checked = DirPairs
               /\ fr.fails = fr.loads
               /\ fr.nloads = Len(Candidates(fr.system))
               /\ fr.nfails = fr.nloads)
        /\ (fr.font # DefaultFont /\ Len(fr.font[2]) = 2) =>
              /\ fr.checked = (fr.d - 1) * Len(Candidates(fr.system)) + fr.c
              /\ fr.fails = fr.loads - 1
              /\ fr.nloads = 0
        /\ (fr.font # DefaultFont /\ Len(fr.font[2]) = 1) =>
              /\ fr.checked = DirPairs
              /\ fr.fails = fr.loads
              /\ fr.nloads = fr.c
              /\ fr.nfails = fr.c - 1

\* C7 witness: the default font returned after directory candidates that
\* existed and failed to load
C7_Witness ==
    /\ fr.phase = "done"
    /\ fr.font = DefaultFont
    /\ fr.fails >= 2
    /\ fr.fails < fr.checked

\* C8: when the core returns an error the command line program prints the
\* core's message to standard error and nothing to standard output, exits
\* with a non-zero status and writes no file; on success it writes the image to
\* the derived filename.
C8_CliErrorToStderr ==
    (last.op = "cli" /\ last.ret # None) =>
        /\ last.ret[5] # None =>
              /\ last.run.stderr = <<last.ret[5]>>
              /\ last.run.stdout = <<>>
              /\ last.run.exit # 0
              /\ last.run.wrote = {}
        /\ last.ret[5] = None =>
              /\ last.run.wrote = {last.ret[2]}
              /\ disk[last.ret[2]] = <<"JPEG", last.ret[1]>>

\* C9: the /generate handler does not call the core when from_date is missing
\* and answers 400 with the usage message; a core error is answered 400 with
\* the core's message unchanged; the image attachment, named by the core's
\* filename, is sent only when the core returned no error.
C9_HttpErrors ==
    last.op = "http" =>
        /\ last.from_date_str = None =>
              /\ last.response.ret = None
              /\ last.response.status = 400
              /\ last.response.json[2][1] = "usage"
              /\ last.response.data = None
        /\ (last.response.ret # None /\ last.response.ret[5] # None) =>
              /\ last.response.status = 400
              /\ last.response.json = << <<"error", last.response.ret[5]>> >>
              /\ last.response.ret[5] =
                    generate_igazolas_image(last.from_date_str, last.to_date_str,
                                            TemplatePath, disk, last.now)[5]
              /\ last.response.data = None
        /\ last.response.data # None =>
              /\ last.response.ret # None
              /\ last.response.ret[5] = None
              /\ last.response.download_name = last.response.ret[2]
              /\ last.response.data = <<"JPEG", last.response.ret[1]>>

\* C9 witness: a request with a malformed from_date, answered 400 with the
\* core's 'from' error
C9_Witness ==
    /\ last.op = "http"
    /\ TemplateLoads
    /\ last.response.status = 400
    /\ last.response.ret # None
    /\ last.response.json = << <<"error", FromErrorText(last.from_date_str)>> >>

\* C10: no call of the core, run of the program or request changes the
\* template file; direct calls and requests write no file; the only file a run
\* writes is the derived output filename, which is never the template path.
C10_TemplateNeverRewritten ==
    [][/\ PathExists(disk', TemplatePath) <=> PathExists(disk, TemplatePath)
       /\ PathExists(disk, TemplatePath) => disk'[TemplatePath] = disk[TemplatePath]
       /\ last'.op \in {"generate", "http"} => disk' = disk
       /\ \A n \in DOMAIN disk' :
             (n \notin DOMAIN disk \/ disk'[n] # disk[n]) =>
                 /\ last'.op = "cli"
                 /\ last'.ret # None
                 /\ n = last'.ret[2]
                 /\ n # TemplatePath]_vars

\* C10 witness: a run wrote its output file and the template is as it was
C10_Witness ==
    /\ last.op = "cli"
    /\ last.run.exit = 0
    /\ last.run.wrote # {}
    /\ \E n \in DOMAIN disk : n # TemplatePath
    /\ disk[TemplatePath] = TemplateJpeg

====
